---- MODULE Spec2Model ----
(***************************************************************************)
(* Dijkstra's shortest path (src/DSA/Dijkstra's Shortest Path              *)
(* Algorithm.cpp): dijkstra_shortest_path followed by reconstruct_path,    *)
(* as main calls them.  Maps are functions whose DOMAIN is the key set,    *)
(* the priority queue is the sequence of its entries in extraction order,  *)
(* int is the 32-bit two's complement int of the build.                    *)
(***************************************************************************)
EXTENDS Integers, Sequences, FiniteSets, TLC

\* ------------------------------------------------------------------ bounds
\* Generated graphs have at most MaxEdges edges.
MaxEdges == 3
\* Generated small edge weights are 0..MaxWeight (IntMax is always offered too).
MaxWeight == 1
\* The backward walk of reconstruct_path is followed for at most MaxWalk steps.
MaxWalk == 4

\* --------------------------------------------------------------- constants
\* numeric_limits<int>::max()
IntMax == 2147483647
IntMin == -IntMax - 1

\* ------------------------------------------------------------------- nodes
SmallNodes == {"A", "B", "C"}
SampleNodes == {"A", "B", "C", "D", "E", "F"}
\* std::string's operator< on the one-letter labels
NodeRank == [n \in SampleNodes |->
               CASE n = "A" -> 1 [] n = "B" -> 2 [] n = "C" -> 3
                 [] n = "D" -> 4 [] n = "E" -> 5 [] n = "F" -> 6]
NoNode == ""

\* --------------------------------------------------------------- std::map
EmptyMap == [k \in {} |-> 0]
MapPut(m, k, v) == [x \in (DOMAIN m) \cup {k} |-> IF x = k THEN v ELSE m[x]]
\* operator[] as a read: a missing key is inserted with a value-initialized int
Subscript(m, k) == IF k \in DOMAIN m THEN m ELSE MapPut(m, k, 0)
\* the keys of a map in iteration (ascending) order
RECURSIVE KeysInOrder(_)
KeysInOrder(S) ==
  IF S = {} THEN <<>>
  ELSE LET k == CHOOSE x \in S : \A y \in S : NodeRank[x] <= NodeRank[y]
       IN <<k>> \o KeysInOrder(S \ {k})

\* ------------------------------------------------------- the sample graph
sample_graph ==
  [n \in SampleNodes |->
     CASE n = "A" -> MapPut(MapPut(MapPut(EmptyMap, "B", 7), "C", 9), "F", 14)
       [] n = "B" -> MapPut(MapPut(EmptyMap, "C", 10), "D", 15)
       [] n = "C" -> MapPut(MapPut(EmptyMap, "D", 11), "F", 2)
       [] n = "D" -> MapPut(EmptyMap, "E", 6)
       [] n = "E" -> MapPut(EmptyMap, "F", 8)
       [] n = "F" -> MapPut(EmptyMap, "E", 9)]
START == "A"
TARGET == "D"

\* ------------------------------------------------------- generated graphs
Weights == (0..MaxWeight) \cup {IntMax}
Pairs == SmallNodes \X SmallNodes
EdgeSets == {E \in SUBSET Pairs : Cardinality(E) <= MaxEdges}
MkGraph(K, W) ==
  [k \in K |-> [n \in {n \in SmallNodes : <<k, n>> \in DOMAIN W} |-> W[<<k, n>>]]]
KeySets(E) == {K \in SUBSET SmallNodes : \A e \in E : e[1] \in K}
\* At most one edge weighs IntMax: with two of them on a cycle the loop of lines
\* 52-85 runs some 2^30 times, which no enumeration of states follows.
WeightMaps(E) ==
  {W \in [E -> Weights] : Cardinality({e \in E : W[e] = IntMax}) <= 1}

\* graph, start_node: the arguments; distances, predecessors, pq: the locals of
\* lines 35-49; current_distance, current_node, todo: lines 55-56 and the
\* position of the loop of line 67; target_node, rp_current_node, path: the
\* argument and locals of reconstruct_path; pc: the place control is at.
\* extracted records the nodes extracted so far with a non-stale entry; no
\* action reads it.
VARIABLES graph, start_node, distances, predecessors, pq, pc,
          current_distance, current_node, todo,
          target_node, rp_current_node, path, extracted

vars == <<graph, start_node, distances, predecessors, pq, pc,
          current_distance, current_node, todo,
          target_node, rp_current_node, path, extracted>>

\* ------------------------------------------------------------ the frontier
\* greater<State> on pair<int, string>: top() is the least pair
StateLess(a, b) == a[1] < b[1] \/ (a[1] = b[1] /\ NodeRank[a[2]] < NodeRank[b[2]])
RECURSIVE Push(_, _)
Push(q, s) ==
  IF q = <<>> THEN <<s>>
  ELSE IF StateLess(s, Head(q)) THEN <<s>> \o q
  ELSE <<Head(q)>> \o Push(Tail(q), s)
Top(q) == Head(q)
Pop(q) == Tail(q)

\* ------------------------------------------------- dijkstra_shortest_path
InitDistances(g, s) ==
  MapPut([k \in DOMAIN g |-> IntMax], s, 0)

\* int + int.  Signed overflow is undefined: the wrapped sum, or any of the
\* other values listed.
Overflows(a, b) == a > 0 /\ b > IntMax - a
Wrapped(a, b) == ((a - IntMax) - 1) + ((b - IntMax) - 1)
UndefinedInts == {IntMin, -1, 0, IntMax}
IntAdd(a, b) ==
  IF Overflows(a, b) THEN {Wrapped(a, b)} \cup UndefinedInts ELSE {a + b}

\* line 60 with >= for >: the entry of the node's own recorded distance is dropped
IsStale_OrEqual(cd, d) == cd >= d
\* line 60
IsStale(cd, d) == cd > d
\* line 75 with <= for <: an equal candidate is recorded and inserted again
IsShorter_OrEqual(nd, d) == nd <= d
\* line 75
IsShorter(nd, d) == nd < d

Init ==
  /\ \/ /\ \E E \in EdgeSets : \E K \in KeySets(E) : \E W \in WeightMaps(E) :
               graph = MkGraph(K, W)
        /\ start_node \in SmallNodes
     \/ /\ graph = sample_graph
        /\ start_node = START
  /\ distances = InitDistances(graph, start_node)
  /\ predecessors = EmptyMap
  /\ pq = <<<<0, start_node>>>>
  /\ pc = "loop"
  /\ current_distance = 0
  /\ current_node = NoNode
  /\ todo = <<>>
  /\ target_node = NoNode
  /\ rp_current_node = NoNode
  /\ path = <<>>
  /\ extracted = {}

\* lines 52-66: extract the least entry, drop it if stale, else start on its
\* neighbours
Extract ==
  /\ pc = "loop"
  /\ pq # <<>>
  /\ LET cd == Top(pq)[1]
         cn == Top(pq)[2]
         d1 == Subscript(distances, cn)
     IN /\ current_distance' = cd
        /\ current_node' = cn
        /\ pq' = Pop(pq)
        /\ distances' = d1
        /\ IF IsStale(cd, d1[cn])
           THEN /\ pc' = "loop"
                /\ todo' = <<>>
                /\ extracted' = extracted
           ELSE /\ extracted' = extracted \cup {cn}
                /\ IF cn \in DOMAIN graph /\ DOMAIN graph[cn] # {}
                   THEN /\ pc' = "relax"
                        /\ todo' = KeysInOrder(DOMAIN graph[cn])
                   ELSE /\ pc' = "loop"
                        /\ todo' = <<>>
  /\ UNCHANGED <<graph, start_node, predecessors, target_node, rp_current_node, path>>

\* lines 67-83: one iteration of the loop over the neighbours
Relax ==
  /\ pc = "relax"
  /\ todo # <<>>
  /\ LET neighbor == Head(todo)
         weight == graph[current_node][neighbor]
         d1 == Subscript(distances, neighbor)
     IN \E new_distance \in IntAdd(current_distance, weight) :
          IF IsShorter(new_distance, d1[neighbor])
          THEN /\ distances' = [d1 EXCEPT ![neighbor] = new_distance]
               /\ predecessors' = MapPut(predecessors, neighbor, current_node)
               /\ pq' = Push(pq, <<new_distance, neighbor>>)
          ELSE /\ distances' = d1
               /\ UNCHANGED <<predecessors, pq>>
  /\ todo' = Tail(todo)
  /\ pc' = IF Tail(todo) = <<>> THEN "loop" ELSE "relax"
  /\ UNCHANGED <<graph, start_node, current_distance, current_node,
                 target_node, rp_current_node, path, extracted>>

\* lines 52, 87: the frontier is empty, the maps are returned
Return ==
  /\ pc = "loop"
  /\ pq = <<>>
  /\ pc' = "returned"
  /\ UNCHANGED <<graph, start_node, distances, predecessors, pq,
                 current_distance, current_node, todo,
                 target_node, rp_current_node, path, extracted>>

\* ------------------------------------------------------- reconstruct_path
Targets == IF graph = sample_graph THEN {TARGET} ELSE SmallNodes

\* line 100 with the look-up left out
HasPredecessor_Unchecked(p, n) == TRUE
\* line 100: predecessors.find(current_node) != predecessors.end()
HasPredecessor(p, n) == n \in DOMAIN p

RECURSIVE Reverse(_)
Reverse(s) == IF s = <<>> THEN <<>> ELSE Reverse(Tail(s)) \o <<Head(s)>>

\* lines 94-96 (called as in lines 134-150)
Reconstruct ==
  /\ pc = "returned"
  /\ \E t \in Targets :
       /\ target_node' = t
       /\ rp_current_node' = t
  /\ path' = <<>>
  /\ pc' = "walk"
  /\ UNCHANGED <<graph, start_node, distances, predecessors, pq,
                 current_distance, current_node, todo, extracted>>

\* lines 99-106: one step backward; map::at throws on a missing key
WalkStep ==
  /\ pc = "walk"
  /\ rp_current_node # start_node
  /\ Len(path) < MaxWalk
  /\ IF ~HasPredecessor(predecessors, rp_current_node)
     THEN /\ path' = <<>>
          /\ pc' = "path_returned"
          /\ UNCHANGED rp_current_node
     ELSE IF rp_current_node \in DOMAIN predecessors
     THEN /\ path' = Append(path, rp_current_node)
          /\ rp_current_node' = predecessors[rp_current_node]
          /\ pc' = "walk"
     ELSE /\ pc' = "out_of_range"
          /\ path' = Append(path, rp_current_node)
          /\ UNCHANGED rp_current_node
  /\ UNCHANGED <<graph, start_node, distances, predecessors, pq,
                 current_distance, current_node, todo, target_node, extracted>>

\* lines 99, 108-112
WalkEnd ==
  /\ pc = "walk"
  /\ rp_current_node = start_node
  /\ path' = Reverse(Append(path, start_node))
  /\ pc' = "path_returned"
  /\ UNCHANGED <<graph, start_node, distances, predecessors, pq,
                 current_distance, current_node, todo,
                 target_node, rp_current_node, extracted>>

Next ==
  \/ Extract
  \/ Relax
  \/ Return
  \/ Reconstruct
  \/ WalkStep
  \/ WalkEnd

Spec == Init /\ [][Next]_vars

\* the call runs to completion: no step that can be taken is put off for ever
FairSpec == Spec /\ WF_vars(Next)

\* ------------------------------------------- what the claims are stated in
GraphNodes ==
  (DOMAIN graph) \cup UNION {DOMAIN graph[k] : k \in DOMAIN graph} \cup {start_node}
HasEdge(u, v) == u \in DOMAIN graph /\ v \in DOMAIN graph[u]
RECURSIVE ReachFrom(_)
ReachFrom(S) ==
  LET T == S \cup {v \in GraphNodes : \E u \in S : HasEdge(u, v)}
  IN IF T = S THEN S ELSE ReachFrom(T)
Reachable == ReachFrom({start_node})

\* Exact path weights, free of the width of int: <<k, s>> stands for
\* k * IntMax + s (every weight is IntMax or far below it).
Exact(w) == IF w = IntMax THEN <<1, 0>> ELSE <<0, w>>
ExactAdd(p, q) == <<p[1] + q[1], p[2] + q[2]>>
ExactLess(p, q) == p[1] < q[1] \/ (p[1] = q[1] /\ p[2] < q[2])
ExactIs(v, p) == (p[1] = 0 /\ v = p[2]) \/ (p[1] = 1 /\ p[2] = 0 /\ v = IntMax)
NoPath == <<-1, 0>>
Least(P) == CHOOSE p \in P : \A q \in P : ~ExactLess(q, p)
RECURSIVE Rounds(_, _)
Rounds(d, i) ==
  IF i = 0 THEN d
  ELSE Rounds([v \in GraphNodes |->
                 LET C == (IF d[v] = NoPath THEN {} ELSE {d[v]}) \cup
                          {ExactAdd(d[u], Exact(graph[u][v])) :
                             u \in {u \in GraphNodes : HasEdge(u, v) /\ d[u] # NoPath}}
                 IN IF C = {} THEN NoPath ELSE Least(C)],
              i - 1)
\* the least total weight of a directed path from start_node to each node
MinPathWeight ==
  Rounds([v \in GraphNodes |-> IF v = start_node THEN <<0, 0>> ELSE NoPath],
         Cardinality(GraphNodes))

IsPath(p) == \A i \in 1..(Len(p) - 1) : HasEdge(p[i], p[i + 1])
RECURSIVE PathWeight(_)
PathWeight(p) ==
  IF Len(p) < 2 THEN <<0, 0>>
  ELSE ExactAdd(Exact(graph[p[1]][p[2]]), PathWeight(Tail(p)))

Solved == pc \in {"returned", "walk", "path_returned", "out_of_range"}

\* C1: when dijkstra_shortest_path returns, the distance recorded for every
\* node reachable from the start is the least total weight of a path from the
\* start to it (nodes that are only neighbours included).
C1_Claim ==
  pc = "returned" =>
    \A n \in Reachable :
      n \in DOMAIN distances /\ ExactIs(distances[n], MinPathWeight[n])

\* C2: for a target reachable from the start, reconstruct_path returns a
\* non-empty sequence from start to target along edges of the graph whose
\* weights sum to the distance recorded for the target.
C2_Claim ==
  (pc = "path_returned" /\ target_node \in Reachable) =>
    /\ path # <<>>
    /\ path[1] = start_node
    /\ path[Len(path)] = target_node
    /\ IsPath(path)
    /\ target_node \in DOMAIN distances
    /\ ExactIs(distances[target_node], PathWeight(path))

\* C3: when dijkstra_shortest_path returns, every node not reachable from the
\* start has the sentinel as its recorded distance and no predecessor entry.
C3_Claim ==
  pc = "returned" =>
    \A n \in GraphNodes \ Reachable :
      /\ n \in DOMAIN distances
      /\ distances[n] = IntMax
      /\ n \notin DOMAIN predecessors

\* C4: for a target not reachable from the start, reconstruct_path returns the
\* empty sequence as a normal result (map::at never throws) after a single
\* look-up, and no step of it changes the predecessor map.
C4_EmptyPathForUnreachable ==
  [][(pc \in {"returned", "walk"} /\ target_node' \notin Reachable) =>
       /\ predecessors' = predecessors
       /\ pc' # "out_of_range"
       /\ pc' = "walk" => (rp_current_node' = target_node' /\ path' = <<>>)
       /\ pc' = "path_returned" => path' = <<>>]_vars
C4_Witness ==
  /\ pc = "path_returned"
  /\ target_node \in GraphNodes \ Reachable
  /\ path = <<>>
  /\ predecessors # EmptyMap

\* C5: the distance recorded for the start node is 0 in every state, and when
\* the start is not a key of the graph every other recorded distance is the
\* sentinel when the maps are returned.
C5_Claim ==
  /\ start_node \in DOMAIN distances
  /\ distances[start_node] = 0
  /\ (pc = "returned" /\ start_node \notin DOMAIN graph) =>
       \A n \in (DOMAIN distances) \ {start_node} : distances[n] = IntMax

\* C6: on the sample graph from A the distances are A=0, B=7, C=9, D=20, E=20,
\* F=11 and the path reconstructed for D is A, C, D.
SampleDistances ==
  [n \in SampleNodes |->
     CASE n = "A" -> 0 [] n = "B" -> 7 [] n = "C" -> 9
       [] n = "D" -> 20 [] n = "E" -> 20 [] n = "F" -> 11]
C6_SampleRun ==
  graph = sample_graph =>
    /\ Solved => distances = SampleDistances
    /\ pc = "path_returned" => path = <<"A", "C", "D">>
    /\ pc # "out_of_range"
C6_Witness ==
  /\ graph = sample_graph
  /\ pc = "path_returned"
  /\ target_node = TARGET
  /\ path = <<"A", "C", "D">>
  /\ distances["D"] = 20

\* C7: no addition current_distance + weight wraps around the width of int,
\* and no candidate is equal to the sentinel.
C7_Claim ==
  (pc = "relax" /\ todo # <<>>) =>
    LET weight == graph[current_node][Head(todo)]
    IN /\ ~Overflows(current_distance, weight)
       /\ current_distance + weight # IntMax

\* C8: once a node has been extracted with a non-stale entry, its recorded
\* distance and its predecessor entry never change.
C8_Claim ==
  [][\A n \in extracted :
       /\ n \in DOMAIN distances'
       /\ distances'[n] = distances[n]
       /\ (n \in DOMAIN predecessors') = (n \in DOMAIN predecessors)
       /\ n \in DOMAIN predecessors => predecessors'[n] = predecessors[n]]_vars

\* C9: the main loop terminates (the frontier becomes empty and the maps are
\* returned), and every insertion into the frontier follows a strict decrease
\* of the inserted node's recorded distance.
C9_Terminates ==
  /\ <>(pc = "returned" /\ pq = <<>>)
  /\ [][Len(pq') > Len(pq) =>
          \E n \in DOMAIN distances' :
            /\ pq' = Push(pq, <<distances'[n], n>>)
            /\ distances'[n] < Subscript(distances, n)[n]]_vars
C9_Witness ==
  /\ pc = "returned"
  /\ pq = <<>>
  /\ Cardinality(DOMAIN predecessors) >= 2
  /\ \E n \in DOMAIN predecessors : predecessors[n] # start_node

\* C10: the predecessor map is a tree rooted at the start: the start has no
\* entry, each entry n -> p is an edge p -> n with
\* distances[n] = distances[p] + weight(p, n), and following entries from any
\* node reaches the start without meeting a node twice.
RECURSIVE ChainEnds(_, _)
ChainEnds(n, seen) ==
  IF n = start_node THEN TRUE
  ELSE IF n \in seen \/ n \notin DOMAIN predecessors THEN FALSE
  ELSE ChainEnds(predecessors[n], seen \cup {n})
C10_Claim ==
  /\ start_node \notin DOMAIN predecessors
  /\ \A n \in DOMAIN predecessors :
       LET p == predecessors[n]
       IN /\ HasEdge(p, n)
          /\ p \in DOMAIN distances
          /\ n \in DOMAIN distances
          /\ ~Overflows(distances[p], graph[p][n])
          /\ distances[n] = distances[p] + graph[p][n]
          /\ ChainEnds(n, {})

====
